---- MODULE Spec2Model ----
(***************************************************************************)
(* Population predictor (src/app.py): a Streamlit script that is re-run    *)
(* top to bottom on every user interaction.  Each run loads the model      *)
(* through a process-wide resource cache, renders the form when a model is *)
(* available and, when the predict button was pressed, one-hot encodes the *)
(* four inputs, aligns the columns with the model's feature names and      *)
(* calls model.predict.                                                    *)
(*                                                                         *)
(* A data frame of one row is a sequence of columns [name, val]; column    *)
(* order is the frame's column order.                                      *)
(***************************************************************************)
EXTENDS Integers, Sequences, FiniteSets, TLC

\* ---------------------------------------------------------------- bounds
MaxSchemaLen == 2

\* ------------------------------------------------------ program constants
YearMin == 1960
YearDefault == 2020
CodeDefault == "KEN"
IdDefault == "KE"
NameDefault == "Kenya"

\* Values the text inputs and the year input are driven with.
Codes == {"KEN", "USA"}
Ids == {"KE", "US"}
CountryNames == {"Kenya", ""}
Years == {YearMin, YearDefault}

\* Feature names a trained model may carry.
FeatureNames ==
  {"date", "countryiso3code_KEN", "countryiso3code_USA", "date_2020"}

ScenarioSchema ==
  <<"date", "countryiso3code_KEN", "country.id_KE", "country.value_Kenya">>

RECURSIVE SeqsUpTo(_, _)
SeqsUpTo(S, n) ==
  IF n = 0 THEN {<<>>}
  ELSE LET shorter == SeqsUpTo(S, n - 1)
       IN  shorter \cup {Append(s, x) : s \in {t \in shorter : Len(t) = n - 1}, x \in S}

Schemas == SeqsUpTo(FeatureNames, MaxSchemaLen) \cup {ScenarioSchema}

\* The content of machine_model.pkl: absent, unreadable, or a model that
\* may or may not expose feature_names_in_.
Artifacts ==
  {[kind |-> "missing", exposes |-> FALSE, names |-> <<>>],
   [kind |-> "corrupt", exposes |-> FALSE, names |-> <<>>],
   [kind |-> "ok", exposes |-> FALSE, names |-> <<>>]}
  \cup {[kind |-> "ok", exposes |-> TRUE, names |-> s] : s \in Schemas}

\* ------------------------------------------------------------- state
VARIABLES
  artifact,          \* machine_model.pkl as found on disk
  cached,            \* the resource cache of load_model: <<>> or <<value>>
  loads,             \* executions of load_model's body that returned
  country_iso, year, country_id, country_name,   \* widget values
  rendered,          \* elements the last run put on the page
  button,            \* st.button's value in the last run
  training_columns,  \* line 70, in the last run
  input_encoded,     \* the frame handed to model.predict in the last run
  predicted,         \* what model.predict did in the last run
  written,           \* the debug lines of the last run
  uncaught,          \* the exception that ended the last run, if any
  predictCalls,      \* calls of model.predict in the last run
  first,             \* history: the first submission, its input and its vector
  resubmitted        \* history: the last run was a later submission

vars == <<artifact, cached, loads, country_iso, year, country_id, country_name,
          rendered, button, training_columns, input_encoded, predicted,
          written, uncaught, predictCalls, first, resubmitted>>

\* -------------------------------------------------------- pure functions
Range(s) == {s[i] : i \in 1..Len(s)}

Col(n, v) == [name |-> n, val |-> v]

ColumnNames(df) == [i \in 1..Len(df) |-> df[i].name]

CategoricalColumns == <<"countryiso3code", "country.id", "country.value">>

\* input_df, in the key order of the dict literal.
InputDf(ci, y, cid, cn) ==
  <<Col("countryiso3code", ci), Col("date", y),
    Col("country.id", cid), Col("country.value", cn)>>

IsEncoded(df, columns, i) == df[i].name \in Range(columns)

RECURSIVE KeepOthers(_, _, _)
KeepOthers(df, columns, i) ==
  IF i > Len(df) THEN <<>>
  ELSE (IF IsEncoded(df, columns, i) THEN <<>> ELSE <<df[i]>>)
       \o KeepOthers(df, columns, i + 1)

\* A naming slip: the separator of the `<fieldname>_<value>` convention left out.
DummyNameNoSeparator(prefix, value) == prefix \o value

DummyName(prefix, value) == prefix \o "_" \o value

DummyOf(df, field) ==
  LET i == CHOOSE k \in 1..Len(df) : df[k].name = field
  IN  Col(DummyName(field, df[i].val), 1)

\* A slip: only the selected columns are passed to the encoder, so the
\* columns that are not encoded (the year) are lost.
GetDummiesOnly(df, columns) ==
  [k \in 1..Len(columns) |-> DummyOf(df, columns[k])]

\* A slip: the encoded frame is kept across runs and each run's columns are
\* appended to it.
GetDummiesAppended(df, columns) ==
  (IF first = <<>> THEN <<>> ELSE first[1].vector)
  \o KeepOthers(df, columns, 1) \o [k \in 1..Len(columns) |-> DummyOf(df, columns[k])]

\* pd.get_dummies on a one-row frame: the columns that are not encoded keep
\* their place in front, then one indicator per encoded column, in the order
\* of `columns`.
GetDummies(df, columns) ==
  KeepOthers(df, columns, 1) \o [k \in 1..Len(columns) |-> DummyOf(df, columns[k])]

\* A slip: the loop over the training columns adds nothing.
AddMissingSkipped(enc, cols, i) == enc

\* Lines 73-75: append a zero column for every training column not there yet.
RECURSIVE AddMissing(_, _, _)
AddMissing(enc, cols, i) ==
  IF i > Len(cols) THEN enc
  ELSE AddMissing(
         IF cols[i] \in Range(ColumnNames(enc)) THEN enc
         ELSE Append(enc, Col(cols[i], 0)),
         cols, i + 1)

HasAll(enc, cols) == Range(cols) \subseteq Range(ColumnNames(enc))

\* A slip: the extra columns are dropped but the frame's own column order is
\* kept.
ReindexUnordered(enc, cols) ==
  LET Keep(c) == c.name \in Range(cols)
  IN  SelectSeq(enc, Keep)

\* Line 79: input_encoded[training_columns], a selection by label.
Reindex(enc, cols) ==
  [i \in 1..Len(cols) |->
     enc[CHOOSE k \in 1..Len(enc) : enc[k].name = cols[i]]]

\* A slip: the selection is applied to an empty column list too.
SelectAlways(enc, cols) == Reindex(enc, cols)

\* Line 78: the selection is applied only for a non-empty column list.
Select(enc, cols) ==
  IF Len(cols) > 0 THEN Reindex(enc, cols) ELSE enc

\* Line 70.
TrainingColumns(m) == IF m.exposes THEN m.names ELSE <<>>

\* A slip: the form is rendered whether or not a model was loaded.
FormRenderedAlways(m) == TRUE

\* Line 25: everything below the load is rendered only for a model.
FormRendered(m) == m.loaded

\* The value load_model returns for a file that was read (line 18) or was
\* not found (line 21).
None == [loaded |-> FALSE, exposes |-> FALSE, names |-> <<>>]

LoadModel(a) ==
  IF a.kind = "ok" THEN [loaded |-> TRUE, exposes |-> a.exposes, names |-> a.names]
  ELSE None

\* Line 19 catches FileNotFoundError only: any other failure of joblib.load
\* leaves load_model as an exception.
LoadRaises(a) == a.kind = "corrupt"

\* A slip: load_model without its cache decorator.
CacheHitNever(c) == FALSE

\* Line 14: the resource cache answers every call after the first one that
\* returned.
CacheHit(c) == c # <<>>

\* Line 110: `len(training_columns) if training_columns`.  A list is false when
\* empty; an ndarray of one name has its element's truth value, an ndarray
\* of several names has none (ValueError), and an empty ndarray is false or
\* an error depending on the numpy in use (emptyTruth).
Truthy(m, cols, emptyTruth) ==
  IF ~m.exposes THEN "false"
  ELSE IF Len(cols) = 0 THEN emptyTruth
  ELSE IF Len(cols) = 1
       THEN (IF cols[1] # "" THEN "true" ELSE "false")
  ELSE "raise"

ShapeLine(enc) == "- Input shape: (1, " \o ToString(Len(enc)) \o ")"

ExpectsLine(cols, truth) ==
  "- Model expects: "
  \o (IF truth = "true" THEN ToString(Len(cols)) ELSE "Unknown")
  \o " features"

\* Lines 104-110: what the except branch writes, and whether it completes.
DebugInfo(m, enc, cols, emptyTruth) ==
  LET truth == Truthy(m, cols, emptyTruth)
  IN  IF truth = "raise" THEN <<ShapeLine(enc)>>
      ELSE <<ShapeLine(enc), ExpectsLine(cols, truth)>>

\* Lines 83-102: the try body.  model.predict either raises, or returns a
\* number; a number int() cannot convert fails at line 95, after line 86.
TryRendered(outcome) ==
  IF outcome = "value" THEN {"success", "metric", "info"}
  ELSE IF outcome = "nonfinite" THEN {"success", "error"}
  ELSE {"error"}

\* A slip: a failed prediction is tried a second time.
PredictCallsRetried(outcome) == IF outcome = "raised" THEN 2 ELSE 1

\* Line 83 is the only call of model.predict, and nothing repeats it.
PredictCalls(outcome) == 1

PredictOutcomes == {"value", "nonfinite", "raised"}

Init ==
  /\ artifact \in Artifacts
  /\ cached = <<>>
  /\ loads = 0
  /\ country_iso = CodeDefault
  /\ year = YearDefault
  /\ country_id = IdDefault
  /\ country_name = NameDefault
  /\ rendered = {}
  /\ button = FALSE
  /\ training_columns = <<>>
  /\ input_encoded = <<>>
  /\ predicted = "none"
  /\ written = <<>>
  /\ uncaught = "none"
  /\ predictCalls = 0
  /\ first = <<>>
  /\ resubmitted = FALSE

\* Lines 58-110, the button handler, for the model m: the columns of line 70,
\* whether line 79 fails, the frame handed to model.predict, and what the
\* except branch writes.
Handler(m, ci, y, cid, cn, emptyTruth) ==
  LET tc == TrainingColumns(m)
      enc1 == AddMissing(GetDummies(InputDf(ci, y, cid, cn), CategoricalColumns), tc, 1)
  IN  IF Len(tc) > 0 /\ ~HasAll(enc1, tc)
      THEN [tc |-> tc, keyError |-> TRUE, enc |-> <<>>, debug |-> <<>>]
      ELSE LET enc == Select(enc1, tc)
           IN  [tc |-> tc, keyError |-> FALSE, enc |-> enc,
                debug |-> DebugInfo(m, enc, tc, emptyTruth)]

Idle == [tc |-> <<>>, keyError |-> FALSE, enc |-> <<>>, debug |-> <<>>]

\* One run of the script, lines 7-142, with the widget values ci, y, cid, cn,
\* the button pressed or not, and the environment's answers: what
\* model.predict does (outcome) and numpy's truth value of an empty array.
Run(ci, y, cid, cn, pressed, outcome, emptyTruth) ==
  \E hit \in {CacheHit(cached)} :
  \E loadFails \in {~hit /\ LoadRaises(artifact)} :
  \E m \in {IF hit THEN cached[1] ELSE LoadModel(artifact)} :
  \E form \in {~loadFails /\ FormRendered(m)} :
  \E h \in {IF form /\ pressed THEN Handler(m, ci, y, cid, cn, emptyTruth) ELSE Idle} :
    LET handler == form /\ pressed
        calls == handler /\ ~h.keyError
        failed == calls /\ outcome # "value"
        debugRaises == failed /\ Len(h.debug) < 2
        aborted == loadFails \/ h.keyError \/ debugRaises
    IN  /\ country_iso' = ci
        /\ year' = y
        /\ country_id' = cid
        /\ country_name' = cn
        /\ artifact' = artifact
        /\ cached' = IF hit \/ loadFails THEN cached ELSE <<m>>
        /\ loads' = IF hit \/ loadFails THEN loads ELSE loads + 1
        /\ button' = handler
        /\ training_columns' = h.tc
        /\ input_encoded' = h.enc
        /\ predictCalls' = IF calls THEN PredictCalls(outcome) ELSE 0
        /\ predicted' = IF calls THEN outcome ELSE "none"
        /\ written' = IF failed THEN h.debug ELSE <<>>
        /\ uncaught' = IF loadFails THEN "load"
                       ELSE IF h.keyError THEN "KeyError"
                       ELSE IF debugRaises THEN "ValueError"
                       ELSE "none"
        /\ rendered' = {"title"}
                       \cup (IF ~loadFails /\ ~m.loaded THEN {"load_error"} ELSE {})
                       \cup (IF form THEN {"loaded", "form", "echo"} ELSE {})
                       \cup (IF calls THEN TryRendered(outcome) ELSE {})
                       \cup (IF aborted THEN {} ELSE {"sidebar", "footer"})
        /\ first' = IF calls /\ first = <<>>
                    THEN <<[input |-> <<ci, y, cid, cn>>, vector |-> h.enc]>>
                    ELSE first
        /\ resubmitted' = (calls /\ first # <<>>)

\* A browser opens (or reloads) the page: a fresh session, default widgets.
OpenPage ==
  Run(CodeDefault, YearDefault, IdDefault, NameDefault, FALSE, "value", "false")

\* The widgets exist on the page only when the last run rendered the form.
EditCountryCode ==
  /\ "form" \in rendered
  /\ \E v \in Codes \ {country_iso} :
       Run(v, year, country_id, country_name, FALSE, "value", "false")

EditYear ==
  /\ "form" \in rendered
  /\ \E v \in Years \ {year} :
       Run(country_iso, v, country_id, country_name, FALSE, "value", "false")

EditCountryId ==
  /\ "form" \in rendered
  /\ \E v \in Ids \ {country_id} :
       Run(country_iso, year, v, country_name, FALSE, "value", "false")

EditCountryName ==
  /\ "form" \in rendered
  /\ \E v \in CountryNames \ {country_name} :
       Run(country_iso, year, country_id, v, FALSE, "value", "false")

\* Line 55: the button is pressed; the run that follows executes the handler.
ClickPredict ==
  /\ "form" \in rendered
  /\ \E outcome \in PredictOutcomes, emptyTruth \in {"false", "raise"} :
       Run(country_iso, year, country_id, country_name, TRUE, outcome, emptyTruth)

Next ==
  \/ OpenPage
  \/ EditCountryCode
  \/ EditYear
  \/ EditCountryId
  \/ EditCountryName
  \/ ClickPredict

Spec == Init /\ [][Next]_vars

\* ------------------------------------------------------------ properties
\* The feature schema the artifact on disk carries; empty when the model
\* exposes no feature names.
ExpectedSchema ==
  IF artifact.kind = "ok" /\ artifact.exposes THEN artifact.names ELSE <<>>

\* The indicator names of the values submitted in the last run.
Observed ==
  {"countryiso3code_" \o country_iso, "country.id_" \o country_id,
   "country.value_" \o country_name}

\* C1: for every input and every non-empty schema, the column names of the
\* frame handed to model.predict are the schema: same names, same order,
\* nothing else.
C1_ColumnsEqualSchema ==
  (button /\ Len(ExpectedSchema) > 0) =>
    /\ predicted # "none"
    /\ ColumnNames(input_encoded) = ExpectedSchema

\* C1 witness: a submission whose category is in the schema and whose columns
\* had to be reordered.
C1_Witness ==
  /\ button
  /\ country_iso = "KEN"
  /\ ExpectedSchema = <<"countryiso3code_KEN", "date">>
  /\ input_encoded = <<Col("countryiso3code_KEN", 1), Col("date", year)>>

\* C2: when some submitted category has no indicator column in a non-empty
\* schema, alignment does not fail, the frame is as long as the schema, and
\* every schema column the encoder did not produce holds 0.
C2_UnseenCategoryZeroed ==
  (button /\ Len(ExpectedSchema) > 0 /\ ~(Observed \subseteq Range(ExpectedSchema))) =>
    /\ uncaught # "KeyError"
    /\ predicted # "none"
    /\ Len(input_encoded) = Len(ExpectedSchema)
    /\ \A i \in 1..Len(ExpectedSchema) :
         ExpectedSchema[i] \notin (Observed \cup {"date"}) => input_encoded[i].val = 0

\* C2 witness: KEN/2020/KE/Kenya against ["date", "countryiso3code_USA"].
C2_Witness ==
  /\ button
  /\ country_iso = "KEN" /\ year = 2020 /\ country_id = "KE" /\ country_name = "Kenya"
  /\ ExpectedSchema = <<"date", "countryiso3code_USA">>
  /\ input_encoded = <<Col("date", 2020), Col("countryiso3code_USA", 0)>>

\* C3: with an empty schema (no feature names exposed, or none carried) the
\* frame handed to model.predict is the encoder's output as it stands: the
\* year, then one indicator per categorical field.
C3_EmptySchemaPassThrough ==
  (button /\ Len(ExpectedSchema) = 0) =>
    /\ predicted # "none"
    /\ input_encoded =
         <<Col("date", year),
           Col("countryiso3code_" \o country_iso, 1),
           Col("country.id_" \o country_id, 1),
           Col("country.value_" \o country_name, 1)>>

\* C3 witness: a submission to a model that exposes no feature names.
C3_Witness ==
  /\ button
  /\ artifact.kind = "ok" /\ ~artifact.exposes
  /\ country_iso = "USA"
  /\ Len(input_encoded) = 4

\* A run has happened and the artifact could not be located or loaded.
ModelUnavailable == rendered # {} /\ artifact.kind # "ok"

\* C4 as stated: with the model unavailable the error is reported, nothing
\* is predicted, and the input form still renders.
C4_FormStillRenders ==
  ModelUnavailable =>
    /\ predictCalls = 0
    /\ "form" \in rendered

\* C4 as amended: with the model unavailable the failure is reported (the
\* not-found message of load_model, or the exception of a load that fails
\* otherwise), no handler runs and model.predict is not called, and the
\* input form is not rendered; after a not-found load the rest of the page
\* (sidebar, footer) is.
C4_FormNotRendered ==
  ModelUnavailable =>
    /\ "form" \notin rendered
    /\ ~button /\ predictCalls = 0 /\ predicted = "none" /\ input_encoded = <<>>
    /\ artifact.kind = "missing" =>
         "load_error" \in rendered /\ uncaught = "none" /\ "sidebar" \in rendered
    /\ artifact.kind = "corrupt" => uncaught = "load"

\* C4 witness: a run after which the not-found message is on the page.
C4_Witness ==
  /\ artifact.kind = "missing"
  /\ cached = <<None>>
  /\ "load_error" \in rendered

\* C5: whenever model.predict rejects the frame, the error and both debug
\* lines (shape, expected feature count or 'Unknown') are reported and no
\* further exception leaves the handler.
C5_FailureReportedWithDetail ==
  (button /\ predicted = "raised") =>
    /\ "error" \in rendered
    /\ uncaught = "none"
    /\ Len(written) = 2

\* C6: a submission with the same input as the first submission hands
\* model.predict the same frame, whatever happened in between.
C6_SameInputSameVector ==
  (button /\ predicted # "none" /\ first # <<>>
     /\ first[1].input = <<country_iso, year, country_id, country_name>>) =>
    input_encoded = first[1].vector

\* C6 witness: a later submission that repeats the first submission's input.
C6_Witness ==
  /\ resubmitted
  /\ first[1].input = <<country_iso, year, country_id, country_name>>
  /\ input_encoded = first[1].vector
  /\ Len(input_encoded) > 0

\* C7: each categorical field yields exactly one indicator, named
\* <fieldname>_<value> and set to 1: unaligned, the columns besides the year
\* are exactly those three; aligned, every schema position that names a
\* submitted value holds 1.
C7_ObservedIndicatorIsOne ==
  (button /\ predicted # "none") =>
    /\ Len(ExpectedSchema) = 0 =>
         /\ Len(input_encoded) = 4
         /\ {c \in Range(input_encoded) : c.name # "date"} = {Col(n, 1) : n \in Observed}
    /\ \A i \in 1..Len(input_encoded) :
         input_encoded[i].name \in Observed => input_encoded[i].val = 1

\* C7 witness: KEN/2020/KE/Kenya against the four-name schema.
C7_Witness ==
  /\ button
  /\ ExpectedSchema = ScenarioSchema
  /\ input_encoded =
       <<Col("date", 2020), Col("countryiso3code_KEN", 1),
         Col("country.id_KE", 1), Col("country.value_Kenya", 1)>>

\* C8: the year is never one-hot encoded: a `date` column is there whenever
\* the schema is empty or names it and always holds the submitted year, and
\* no column other than the three submitted categories' indicators holds 1
\* (so none derived from the year does).
C8_YearPassedThrough ==
  (button /\ predicted # "none") =>
    /\ (Len(ExpectedSchema) = 0 \/ "date" \in Range(ExpectedSchema)) =>
         "date" \in Range(ColumnNames(input_encoded))
    /\ \A i \in 1..Len(input_encoded) :
         /\ input_encoded[i].name = "date" => input_encoded[i].val = year
         /\ input_encoded[i].name \notin (Observed \cup {"date"}) =>
              input_encoded[i].val = 0

\* C8 witness: year 2020 against a schema that names date and date_2020.
C8_Witness ==
  /\ button
  /\ year = 2020
  /\ ExpectedSchema = <<"date", "date_2020">>
  /\ input_encoded = <<Col("date", 2020), Col("date_2020", 0)>>

\* C9: a run with the button pressed calls model.predict exactly once and
\* shows exactly one outcome, the prediction or the error; a run without it
\* calls nothing and shows no outcome, so nothing is retried.
C9_OnePredictPerSubmission ==
  /\ button =>
       /\ predictCalls = 1
       /\ predicted # "none"
       /\ Cardinality(rendered \cap {"metric", "error"}) = 1
  /\ ~button =>
       /\ predictCalls = 0
       /\ predicted = "none"
       /\ rendered \cap {"success", "metric", "info", "error"} = {}

\* C9 witness: a later submission whose prediction failed and was reported.
C9_Witness ==
  /\ resubmitted
  /\ predicted = "raised"
  /\ predictCalls = 1
  /\ "error" \in rendered

====
